---- MODULE Spec2Model ----
(***************************************************************************)
(* Model of the fraud-detection API (src/main.py): the request validation  *)
(* of TransactionRequest, sanitize_input, build_fraud_prompt,              *)
(* parse_claude_response and the analyze_transaction handler.              *)
(*                                                                         *)
(* Text is a sequence of one-character strings, so that the regular        *)
(* expressions of the source are computed character by character.          *)
(***************************************************************************)
EXTENDS Integers, Sequences, FiniteSets, TLC

(***************************************************************************)
(* Characters                                                              *)
(***************************************************************************)
UpperChars == <<"A", "B", "C", "D", "E", "F", "G", "H", "I", "J", "K", "L", "M",
                "N", "O", "P", "Q", "R", "S", "T", "U", "V", "W", "X", "Y", "Z">>

LowerChars == <<"a", "b", "c", "d", "e", "f", "g", "h", "i", "j", "k", "l", "m",
                "n", "o", "p", "q", "r", "s", "t", "u", "v", "w", "x", "y", "z">>

DigitChars == {"0", "1", "2", "3", "4", "5", "6", "7", "8", "9"}

\* the lower-case letter of every upper-case letter
LowerOf ==
    [c \in {UpperChars[i] : i \in 1..26} |->
        LowerChars[CHOOSE i \in 1..26 : UpperChars[i] = c]]

\* str.lower() / re.IGNORECASE folding of one character
Lower(c) == IF c \in DOMAIN LowerOf THEN LowerOf[c] ELSE c

LowerStr(s) == [i \in 1..Len(s) |-> Lower(s[i])]

\* the class \s of the regular expressions, and the characters str.strip() removes
IsSpace(c) == c \in {" ", "\t", "\n", "\r"}

WordChars ==
    {UpperChars[i] : i \in 1..26} \cup {LowerChars[i] : i \in 1..26}
        \cup DigitChars \cup {"_"}

\* the class \w of the regular expressions
IsWord(c) == c \in WordChars

\* str.isdigit()
IsDigitStr(s) == Len(s) > 0 /\ \A i \in 1..Len(s) : s[i] \in DigitChars

\* str.strip()
Strip(s) ==
    IF \A i \in 1..Len(s) : IsSpace(s[i])
    THEN <<>>
    ELSE LET a == CHOOSE i \in 1..Len(s) :
                      ~IsSpace(s[i]) /\ \A k \in 1..(i - 1) : IsSpace(s[k])
             b == CHOOSE i \in 1..Len(s) :
                      ~IsSpace(s[i]) /\ \A k \in (i + 1)..Len(s) : IsSpace(s[k])
         IN  SubSeq(s, a, b)

(***************************************************************************)
(* Regular-expression primitives (module re, flag IGNORECASE)              *)
(***************************************************************************)
\* the literal lit matches s at position i, ignoring case
LitAt(s, i, lit) ==
    /\ i >= 1
    /\ i + Len(lit) - 1 <= Len(s)
    /\ \A k \in 1..Len(lit) : Lower(s[i + k - 1]) = Lower(lit[k])

\* the position after a greedy run of whitespace starting at i
SkipWS(s, i) ==
    CHOOSE j \in i..(Len(s) + 1) :
        /\ \A k \in i..(j - 1) : IsSpace(s[k])
        /\ (j = Len(s) + 1 \/ ~IsSpace(s[j]))

\* s contains lit somewhere, ignoring case
Contains(s, lit) == \E i \in 1..Len(s) : LitAt(s, i, lit)

(***************************************************************************)
(* sanitize_input                                                          *)
(***************************************************************************)
W_ignore == <<"i", "g", "n", "o", "r", "e">>
W_previous == <<"p", "r", "e", "v", "i", "o", "u", "s">>
W_instructions == <<"i", "n", "s", "t", "r", "u", "c", "t", "i", "o", "n", "s">>
W_above == <<"a", "b", "o", "v", "e">>
W_disregard == <<"d", "i", "s", "r", "e", "g", "a", "r", "d">>
W_system == <<"s", "y", "s", "t", "e", "m">>
W_assistant == <<"a", "s", "s", "i", "s", "t", "a", "n", "t">>
W_user == <<"u", "s", "e", "r">>
W_colon == <<":">>

\* A pattern is a sequence of literals joined by \s+ (sep = "plus") or by
\* \s* (sep = "star").
injection_patterns ==
    << [words |-> <<W_ignore, W_previous, W_instructions>>, sep |-> "plus"],
       [words |-> <<W_ignore, W_above>>,                    sep |-> "plus"],
       [words |-> <<W_disregard, W_previous>>,              sep |-> "plus"],
       [words |-> <<W_system, W_colon>>,                    sep |-> "star"],
       [words |-> <<W_assistant, W_colon>>,                 sep |-> "star"],
       [words |-> <<W_user, W_colon>>,                      sep |-> "star"] >>

\* The position after a match of words k.. of pat that starts at i, 0 when
\* there is none.  No literal starts with whitespace, so the greedy
\* whitespace run never has to give characters back.
RECURSIVE MatchFrom(_, _, _, _)
MatchFrom(pat, s, i, k) ==
    IF ~LitAt(s, i, pat.words[k]) THEN 0
    ELSE LET e == i + Len(pat.words[k])
             j == SkipWS(s, e)
         IN  IF k = Len(pat.words) THEN e
             ELSE IF pat.sep = "plus" /\ j = e THEN 0
             ELSE MatchFrom(pat, s, j, k + 1)

MatchEnd(pat, s, i) == MatchFrom(pat, s, i, 1)

\* the pattern matches somewhere in s
PatternOccurs(pat, s) == \E i \in 1..Len(s) : MatchEnd(pat, s, i) > 0

\* re.sub(pattern, "", s, flags=re.IGNORECASE): one left-to-right pass that
\* deletes the non-overlapping matches
RECURSIVE ReSubFrom(_, _, _)
ReSubFrom(pat, s, i) ==
    IF i > Len(s) THEN <<>>
    ELSE LET e == MatchEnd(pat, s, i)
         IN  IF e > 0 THEN ReSubFrom(pat, s, e)
             ELSE <<s[i]>> \o ReSubFrom(pat, s, i + 1)

ReSub(pat, s) == ReSubFrom(pat, s, 1)

\* the for loop over injection_patterns, from pattern k on
RECURSIVE ApplyPatterns(_, _)
ApplyPatterns(s, k) ==
    IF k > Len(injection_patterns) THEN s
    ELSE ApplyPatterns(ReSub(injection_patterns[k], s), k + 1)

sanitize_input(text) == Strip(ApplyPatterns(text, 1))

(***************************************************************************)
(* parse_claude_response                                                   *)
(***************************************************************************)
L_RISK_LEVEL == <<"R", "I", "S", "K", "_", "L", "E", "V", "E", "L", ":">>
L_CONFIDENCE == <<"C", "O", "N", "F", "I", "D", "E", "N", "C", "E", ":">>
L_REASONING == <<"R", "E", "A", "S", "O", "N", "I", "N", "G", ":">>
L_RED_FLAGS == <<"R", "E", "D", "_", "F", "L", "A", "G", "S", ":">>
L_RECOMMENDATIONS == <<"R", "E", "C", "O", "M", "M", "E", "N", "D", "A", "T", "I", "O", "N", "S", ":">>
S_unknown == <<"u", "n", "k", "n", "o", "w", "n">>
S_none == <<"n", "o", "n", "e">>

\* the dictionary that parse_claude_response starts from
DefaultResult ==
    [risk_level      |-> S_unknown,
     confidence      |-> S_unknown,
     reasoning       |-> <<>>,
     red_flags       |-> <<>>,
     recommendations |-> <<>>]

NoMatch == [found |-> FALSE, group |-> <<>>]

\* the position after the greedy run \w+ that starts at j
WordRunEnd(s, j) ==
    CHOOSE e \in j..(Len(s) + 1) :
        /\ \A k \in j..(e - 1) : IsWord(s[k])
        /\ (e = Len(s) + 1 \/ ~IsWord(s[e]))

\* TokenMatchAt with the colon of the label left out of the pattern
TokenMatchAt_NoColon(s, i, label) ==
    /\ LitAt(s, i, SubSeq(label, 1, Len(label) - 1))
    /\ LET j == SkipWS(s, i + Len(label) - 1)
       IN  j <= Len(s) /\ IsWord(s[j])

\* label\s*(\w+) matches at i; \s* cannot give a character to \w+
TokenMatchAt(s, i, label) ==
    /\ LitAt(s, i, label)
    /\ LET j == SkipWS(s, i + Len(label))
       IN  j <= Len(s) /\ IsWord(s[j])

\* the least element of a non-empty set of positions
Leftmost(S) == CHOOSE i \in S : \A k \in S : i <= k

\* the leftmost position where label\s*(\w+) matches, 0 if none
FirstToken(s, label) ==
    LET S == {i \in 1..Len(s) : TokenMatchAt(s, i, label)}
    IN  IF S = {} THEN 0 ELSE Leftmost(S)

\* re.search(r"<label>\s*(\w+)", s, re.IGNORECASE): the leftmost match
SearchToken(s, label) ==
    LET i == FirstToken(s, label)
        j == SkipWS(s, i + Len(label))
    IN  IF i > 0
        THEN [found |-> TRUE, group |-> SubSeq(s, j, WordRunEnd(s, j) - 1)]
        ELSE NoMatch

\* $ without re.MULTILINE: the end of the text, or just before a final newline
AtDollar(s, e) == e = Len(s) + 1 \/ (e = Len(s) /\ s[e] = "\n")

\* Where the group of label\s*(.+...) starts for a label that ends before
\* position a: after the greedy whitespace run, or, when that run reaches the
\* end of the text, on its last character (\s* gives one character back to
\* .+, which needs one).  A start before a means that there is no match.
GroupStart(s, a) ==
    LET j == SkipWS(s, a)
    IN  IF j <= Len(s) THEN j ELSE j - 1

SpanMatchAt(s, i, label) ==
    /\ LitAt(s, i, label)
    /\ GroupStart(s, i + Len(label)) >= i + Len(label)

\* the end of the lazy group (.+?) before the lookahead (?=stop|$): the first
\* position after at least one character where stop or $ matches
LazyEnd(s, start, stop) ==
    Leftmost({e \in (start + 1)..(Len(s) + 1) : LitAt(s, e, stop) \/ AtDollar(s, e)})

\* the leftmost position where label\s*(.+...) matches, 0 if none
FirstSpan(s, label) ==
    LET S == {i \in 1..Len(s) : SpanMatchAt(s, i, label)}
    IN  IF S = {} THEN 0 ELSE Leftmost(S)

\* re.search(r"<label>\s*(.+?)(?=<stop>|$)", s, re.IGNORECASE | re.DOTALL)
SearchLazy(s, label, stop) ==
    LET i == FirstSpan(s, label)
        start == GroupStart(s, i + Len(label))
    IN  IF i > 0
        THEN [found |-> TRUE,
              group |-> SubSeq(s, start, LazyEnd(s, start, stop) - 1)]
        ELSE NoMatch

\* re.search(r"<label>\s*(.+)", s, re.IGNORECASE | re.DOTALL)
SearchGreedy(s, label) ==
    LET i == FirstSpan(s, label)
        start == GroupStart(s, i + Len(label))
    IN  IF i > 0
        THEN [found |-> TRUE, group |-> SubSeq(s, start, Len(s))]
        ELSE NoMatch

\* str.split(",")
RECURSIVE Split(_)
Split(s) ==
    IF \A i \in 1..Len(s) : s[i] # ","
    THEN <<s>>
    ELSE LET c == CHOOSE i \in 1..Len(s) :
                      s[i] = "," /\ \A k \in 1..(i - 1) : s[k] # ","
         IN  <<SubSeq(s, 1, c - 1)>> \o Split(SubSeq(s, c + 1, Len(s)))

\* [f.strip() for f in parts if f.strip()]
RECURSIVE StripNonEmpty(_)
StripNonEmpty(parts) ==
    IF parts = <<>> THEN <<>>
    ELSE LET f == Strip(Head(parts))
         IN  (IF f = <<>> THEN <<>> ELSE <<f>>) \o StripNonEmpty(Tail(parts))

ParseRiskLevel(s) ==
    LET m == SearchToken(s, L_RISK_LEVEL)
    IN  IF m.found THEN LowerStr(m.group) ELSE DefaultResult.risk_level

ParseConfidence(s) ==
    LET m == SearchToken(s, L_CONFIDENCE)
    IN  IF m.found THEN LowerStr(m.group) ELSE DefaultResult.confidence

ParseReasoning(s) ==
    LET m == SearchLazy(s, L_REASONING, L_RED_FLAGS)
    IN  IF m.found THEN Strip(m.group) ELSE DefaultResult.reasoning

\* ParseRedFlags comparing flags_text with "none" without lower()
ParseRedFlags_CaseSensitive(s) ==
    LET m == SearchLazy(s, L_RED_FLAGS, L_RECOMMENDATIONS)
        flags_text == Strip(m.group)
    IN  IF m.found /\ flags_text # S_none
        THEN StripNonEmpty(Split(flags_text))
        ELSE DefaultResult.red_flags

ParseRedFlags(s) ==
    LET m == SearchLazy(s, L_RED_FLAGS, L_RECOMMENDATIONS)
        flags_text == Strip(m.group)
    IN  IF m.found /\ LowerStr(flags_text) # S_none
        THEN StripNonEmpty(Split(flags_text))
        ELSE DefaultResult.red_flags

ParseRecommendations(s) ==
    LET m == SearchGreedy(s, L_RECOMMENDATIONS)
    IN  IF m.found THEN Strip(m.group) ELSE DefaultResult.recommendations

parse_claude_response(response_text) ==
    [risk_level      |-> ParseRiskLevel(response_text),
     confidence      |-> ParseConfidence(response_text),
     reasoning       |-> ParseReasoning(response_text),
     red_flags       |-> ParseRedFlags(response_text),
     recommendations |-> ParseRecommendations(response_text)]

(***************************************************************************)
(* TransactionRequest: the fields and their validation                     *)
(***************************************************************************)
\* Optional[str] = None: a value that is no text
None == <<"None">>

\* the truth value of an Optional[str] in "if v and ..." and "v or 'XXXX'"
Truthy(v) == v # None /\ v # <<>>

merchant_min_length == 1
merchant_max_length == 200
card_digits == 4

DigitSeq == <<"0", "1", "2", "3", "4", "5", "6", "7", "8", "9">>

DigitVal(c) == (CHOOSE n \in 1..10 : DigitSeq[n] = c) - 1

\* the two-digit number at positions i, i + 1 of s, -1 when they are not digits
TwoDigits(s, i) ==
    IF i + 1 <= Len(s) /\ s[i] \in DigitChars /\ s[i + 1] \in DigitChars
    THEN 10 * DigitVal(s[i]) + DigitVal(s[i + 1])
    ELSE -1

\* str.replace('Z', '+00:00')
RECURSIVE ReplaceZ(_)
ReplaceZ(s) ==
    IF s = <<>> THEN <<>>
    ELSE (IF Head(s) = "Z" THEN <<"+", "0", "0", ":", "0", "0">> ELSE <<Head(s)>>)
         \o ReplaceZ(Tail(s))

\* YYYY-MM-DD at positions 1..10
IsoDate(s) ==
    /\ Len(s) >= 10
    /\ TwoDigits(s, 1) >= 0 /\ TwoDigits(s, 3) >= 0
    /\ s[5] = "-" /\ TwoDigits(s, 6) \in 1..12
    /\ s[8] = "-" /\ TwoDigits(s, 9) \in 1..31

\* hh:mm at positions i..i+4
IsoHourMinute(s, i) ==
    /\ TwoDigits(s, i) \in 0..23
    /\ i + 2 <= Len(s) /\ s[i + 2] = ":"
    /\ TwoDigits(s, i + 3) \in 0..59

\* hh:mm:ss at positions i..i+7
IsoTime(s, i) ==
    /\ IsoHourMinute(s, i)
    /\ i + 5 <= Len(s) /\ s[i + 5] = ":"
    /\ TwoDigits(s, i + 6) \in 0..59

\* +hh:mm or -hh:mm at positions i..i+5
IsoOffset(s, i) ==
    /\ i <= Len(s) /\ s[i] \in {"+", "-"}
    /\ IsoHourMinute(s, i + 1)

\* datetime.fromisoformat(s) does not raise ValueError: a date, optionally
\* followed by one separator character and a time of day, optionally followed
\* by a UTC offset (days are checked against 31, not against the month)
FromIsoFormatOk(s) ==
    /\ IsoDate(s)
    /\ \/ Len(s) = 10
       \/ Len(s) = 16 /\ IsoHourMinute(s, 12)
       \/ Len(s) = 19 /\ IsoTime(s, 12)
       \/ Len(s) = 25 /\ IsoTime(s, 12) /\ IsoOffset(s, 20)

\* validate_card_last_four returns v (TRUE) or raises ValueError (FALSE)
validate_card_last_four(v) ==
    /\ ~(Truthy(v) /\ Len(v) # card_digits)
    /\ ~(Truthy(v) /\ ~IsDigitStr(v))

\* validate_timestamp returns v (TRUE) or raises ValueError (FALSE)
validate_timestamp(v) == FromIsoFormatOk(ReplaceZ(v))

\* the request body passes the validation of the model TransactionRequest;
\* amount is in cents
TransactionRequest(body) ==
    /\ body.amount > 0
    /\ Len(body.merchant) >= merchant_min_length
    /\ Len(body.merchant) <= merchant_max_length
    /\ validate_timestamp(body.timestamp)
    /\ validate_card_last_four(body.card_last_four)

(***************************************************************************)
(* build_fraud_prompt                                                      *)
(***************************************************************************)
S_XXXX == <<"X", "X", "X", "X">>
S_stars == <<"*", "*", "*", "*">>

\* the decimal digits of a natural number
RECURSIVE Decimal(_)
Decimal(n) ==
    IF n < 10 THEN <<DigitSeq[n + 1]>>
    ELSE Decimal(n \div 10) \o <<DigitSeq[(n % 10) + 1]>>

\* f"{amount:.2f}" for an amount of cents
FormatAmount(cents) ==
    Decimal(cents \div 100) \o <<".">>
        \o <<DigitSeq[((cents % 100) \div 10) + 1], DigitSeq[(cents % 10) + 1]>>

\* The prompt, line by line: the interpolated values are texts, the fixed
\* parts of the template are strings.
build_fraud_prompt(transaction) ==
    [role     |-> "You are a fraud detection expert analyzing a credit card transaction.",
     amount   |-> <<"$">> \o FormatAmount(transaction.amount),
     merchant |-> sanitize_input(transaction.merchant),
     category |-> sanitize_input(transaction.category),
     location |-> sanitize_input(transaction.location),
     time     |-> transaction.timestamp,
     card     |-> S_stars \o (IF Truthy(transaction.card_last_four)
                              THEN transaction.card_last_four
                              ELSE S_XXXX),
     format   |-> <<L_RISK_LEVEL, L_CONFIDENCE, L_REASONING, L_RED_FLAGS,
                    L_RECOMMENDATIONS>>]

(***************************************************************************)
(* State                                                                   *)
(***************************************************************************)
VARIABLES
    text,       \* the text handed to the function under analysis
    nPieces,    \* how many pieces text was assembled from
    phase,      \* "build" while text is assembled, "done" once the function ran
    sanitized,  \* the return value of sanitize_input(text)
    parsed,     \* the return value of parse_claude_response(text)
    wf,         \* the values of the labelled lines text was assembled from
    pc,         \* per request: where the request is
    txn,        \* per request: the body of the request
    prompt,     \* per request: the local variable prompt of analyze_transaction
    calls,      \* per request: how often messages.create was called
    message,    \* per request: what messages.create returned or raised
    response,   \* per request: the FraudAnalysisResponse returned
    status,     \* per request: the HTTP status of the response, 0 before it
    detail,     \* per request: the detail of the HTTPException raised
    ran         \* per request: the functions of the core that were executed

textVars == <<text, nPieces, phase, sanitized, parsed, wf>>
reqVars == <<pc, txn, prompt, calls, message, response, status, detail, ran>>
vars == <<text, nPieces, phase, sanitized, parsed, wf,
          pc, txn, prompt, calls, message, response, status, detail, ran>>

(***************************************************************************)
(* POST /analyze: analyze_transaction                                      *)
(***************************************************************************)
NumRequests == 2

Requests == 1..NumRequests

HTTP_500 == 500

ID_A == <<"t", "x", "n", "_", "0", "0", "1">>
ID_B == <<"t", "x", "n", "_", "0", "0", "2">>
M_A == <<"C", "o", "f", "f", "e", "e", " ", "S", "h", "o", "p">>
M_B == <<"i", "g", "n", "o", "r", "e", " ", "a", "b", "o", "v", "e", " ", "G", "i", "f", "t", " ", "C", "a", "r", "d", "s">>
CAT == <<"r", "e", "t", "a", "i", "l">>
LOC == <<"S", "e", "a", "t", "t", "l", "e", ",", " ", "W", "A">>
T_Z == <<"2", "0", "2", "4", "-", "1", "2", "-", "0", "8", "T", "1", "2", ":", "0", "0", ":", "0", "0", "Z">>
T_bad == <<"y", "e", "s", "t", "e", "r", "d", "a", "y">>
C_5678 == <<"5", "6", "7", "8">>
C_long == <<"1", "2", "3", "4", "5", "6", "7", "8">>
C_56 == <<"5", "6">>
C_56ab == <<"5", "6", "a", "b">>

BodyA ==
    [transaction_id |-> ID_A, amount |-> 4732, merchant |-> M_A, category |-> CAT,
     location |-> LOC, timestamp |-> T_Z, card_last_four |-> C_5678]

BodyB ==
    [transaction_id |-> ID_B, amount |-> 50000, merchant |-> M_B, category |-> CAT,
     location |-> LOC, timestamp |-> T_Z, card_last_four |-> None]

\* the request bodies that are submitted
Bodies ==
    { BodyA, BodyB,
      [BodyA EXCEPT !.amount = 0],
      [BodyA EXCEPT !.merchant = <<>>],
      [BodyA EXCEPT !.merchant = [i \in 1..(merchant_max_length + 1) |-> "a"]],
      [BodyA EXCEPT !.timestamp = T_bad],
      [BodyA EXCEPT !.card_last_four = C_long],
      [BodyA EXCEPT !.card_last_four = C_56],
      [BodyA EXCEPT !.card_last_four = C_56ab],
      [BodyA EXCEPT !.card_last_four = <<>>],
      [BodyA EXCEPT !.category = <<>>],
      [BodyA EXCEPT !.transaction_id = <<>>] }

WellFormedReply ==
    <<"R", "I", "S", "K", "_", "L", "E", "V", "E", "L", ":", " ", "h", "i", "g", "h", "\n", "C",
      "O", "N", "F", "I", "D", "E", "N", "C", "E", ":", " ", "m", "e", "d", "i", "u", "m", "\n",
      "R", "E", "A", "S", "O", "N", "I", "N", "G", ":", " ", "l", "a", "r", "g", "e", " ", "a",
      "m", "o", "u", "n", "t", ".", "\n", "R", "E", "D", "_", "F", "L", "A", "G", "S", ":", " ",
      "u", "n", "u", "s", "u", "a", "l", " ", "l", "o", "c", "a", "t", "i", "o", "n", ",", " ",
      "o", "d", "d", " ", "h", "o", "u", "r", "\n", "R", "E", "C", "O", "M", "M", "E", "N", "D",
      "A", "T", "I", "O", "N", "S", ":", " ", "f", "l", "a", "g", " ", "f", "o", "r", " ", "r",
      "e", "v", "i", "e", "w">>

UnstructuredReply ==
    <<"T", "r", "a", "n", "s", "a", "c", "t", "i", "o", "n", " ", "t", "x", "n", "_", "9", "9", "9", " ", "l", "o", "o", "k", "s", " ", "f", "i", "n", "e", ".">>

NoTransaction == [none |-> TRUE]
NoPrompt == [none |-> TRUE]
NoResponse == [none |-> TRUE]
NoMessage == [kind |-> "none", id |-> <<>>, content |-> <<>>]

\* messages.create raised (network failure, timeout, non-2xx status)
Raised == [kind |-> "raised", id |-> <<>>, content |-> <<>>]

\* what messages.create returns: a reply in the requested format, a reply
\* without any label that names another transaction, an envelope without
\* content
Messages ==
    { [kind |-> "message", id |-> <<"m", "s", "g", "_", "0", "1">>,
       content |-> <<[text |-> WellFormedReply]>>],
      [kind |-> "message", id |-> <<"t", "x", "n", "_", "9", "9", "9">>,
       content |-> <<[text |-> UnstructuredReply]>>],
      [kind |-> "message", id |-> <<"m", "s", "g", "_", "0", "3">>, content |-> <<>>] }

\* RequestTransaction reading one module-level transaction shared by all
\* invocations
RequestTransaction_Shared(r) == txn[CHOOSE q \in Requests : pc[q] # "idle"]

\* the parameter transaction of the invocation that serves request r
RequestTransaction(r) == txn[r]

\* FraudAnalysisResponse(transaction_id=transaction.transaction_id, ...)
FraudAnalysisResponse(transaction, analysis) ==
    [transaction_id  |-> transaction.transaction_id,
     risk_level      |-> analysis.risk_level,
     confidence      |-> analysis.confidence,
     reasoning       |-> analysis.reasoning,
     red_flags       |-> analysis.red_flags,
     recommendations |-> analysis.recommendations]

\* HandleException answering a failure with an all-default result
HandleException_Default(transaction, cause) ==
    [status |-> 200,
     body   |-> FraudAnalysisResponse(transaction, DefaultResult),
     detail |-> <<>>]

\* except Exception as e: raise HTTPException(status_code=500, detail=...)
HandleException(transaction, cause) ==
    [status |-> HTTP_500,
     body   |-> NoResponse,
     detail |-> <<"Failed to analyze transaction: ", cause>>]

InitRequests ==
    /\ pc = [r \in Requests |-> "idle"]
    /\ txn = [r \in Requests |-> NoTransaction]
    /\ prompt = [r \in Requests |-> NoPrompt]
    /\ calls = [r \in Requests |-> 0]
    /\ message = [r \in Requests |-> NoMessage]
    /\ response = [r \in Requests |-> NoResponse]
    /\ status = [r \in Requests |-> 0]
    /\ detail = [r \in Requests |-> <<>>]
    /\ ran = [r \in Requests |-> {}]

InitText ==
    /\ text = <<>>
    /\ nPieces = 0
    /\ phase = "build"
    /\ sanitized = <<>>
    /\ parsed = DefaultResult
    /\ wf = <<>>

Init == InitText /\ InitRequests

\* The request arrives; the framework builds the TransactionRequest and
\* answers 422 without calling the handler when the validation fails.
Receive(r) ==
    /\ pc[r] = "idle"
    /\ \E body \in Bodies :
        /\ txn' = [txn EXCEPT ![r] = body]
        /\ IF TransactionRequest(body)
           THEN /\ pc' = [pc EXCEPT ![r] = "handler"]
                /\ UNCHANGED status
           ELSE /\ pc' = [pc EXCEPT ![r] = "done"]
                /\ status' = [status EXCEPT ![r] = 422]
    /\ UNCHANGED <<prompt, calls, message, response, detail, ran>>
    /\ UNCHANGED textVars

\* The handler up to its only blocking point: the prompt is built and
\* anthropic_client.messages.create(...) is called.
CallModel(r) ==
    /\ pc[r] = "handler"
    /\ prompt' = [prompt EXCEPT ![r] = build_fraud_prompt(RequestTransaction(r))]
    /\ calls' = [calls EXCEPT ![r] = @ + 1]
    /\ ran' = [ran EXCEPT ![r] =
           @ \cup {"sanitize_input", "build_fraud_prompt", "messages.create"}]
    /\ pc' = [pc EXCEPT ![r] = "waiting"]
    /\ UNCHANGED <<txn, message, response, status, detail>>
    /\ UNCHANGED textVars

\* The call returns a message and the handler runs to its end:
\* response_text = message.content[0].text (IndexError on an envelope without
\* content, caught by the except clause), analysis =
\* parse_claude_response(response_text), return result.
ModelReturns(r) ==
    /\ pc[r] = "waiting"
    /\ \E m \in Messages :
        /\ message' = [message EXCEPT ![r] = m]
        /\ IF m.content = <<>>
           THEN LET out == HandleException(RequestTransaction(r), "IndexError")
                IN  /\ status' = [status EXCEPT ![r] = out.status]
                    /\ response' = [response EXCEPT ![r] = out.body]
                    /\ detail' = [detail EXCEPT ![r] = out.detail]
                    /\ UNCHANGED ran
           ELSE LET analysis == parse_claude_response(m.content[1].text)
                IN  /\ response' = [response EXCEPT ![r] =
                           FraudAnalysisResponse(RequestTransaction(r), analysis)]
                    /\ status' = [status EXCEPT ![r] = 200]
                    /\ ran' = [ran EXCEPT ![r] = @ \cup {"parse_claude_response"}]
                    /\ UNCHANGED detail
    /\ pc' = [pc EXCEPT ![r] = "done"]
    /\ UNCHANGED <<txn, prompt, calls>>
    /\ UNCHANGED textVars

\* The call raises (network failure, timeout, non-2xx status); the except
\* clause of the handler turns the exception into a 500.
ModelRaises(r) ==
    /\ pc[r] = "waiting"
    /\ message' = [message EXCEPT ![r] = Raised]
    /\ LET out == HandleException(RequestTransaction(r), "APIError")
       IN  /\ status' = [status EXCEPT ![r] = out.status]
           /\ response' = [response EXCEPT ![r] = out.body]
           /\ detail' = [detail EXCEPT ![r] = out.detail]
    /\ pc' = [pc EXCEPT ![r] = "done"]
    /\ UNCHANGED <<txn, prompt, calls, ran>>
    /\ UNCHANGED textVars

Next ==
    \E r \in Requests :
        \/ Receive(r)
        \/ CallModel(r)
        \/ ModelReturns(r)
        \/ ModelRaises(r)

Spec == Init /\ [][Next]_vars

(***************************************************************************)
(* sanitize_input applied to assembled texts                               *)
(***************************************************************************)
MaxSanitizePieces == 4

SanitizePieces ==
    { W_ignore, W_above, <<" ">>, <<"A", "b", "o", "v", "e">>,
      <<"s", "y", "s">>, <<"t", "e", "m", ":">>, <<"S", "y", "s", "t", "e", "m", ":">>,
      <<"u", "s", "e", "r", " ", ":">>, <<"x">> }

InitSanitize == InitText /\ InitRequests

AppendSanitizePiece ==
    /\ phase = "build"
    /\ nPieces < MaxSanitizePieces
    /\ \E p \in SanitizePieces : text' = text \o p
    /\ nPieces' = nPieces + 1
    /\ UNCHANGED <<phase, sanitized, parsed, wf>>
    /\ UNCHANGED reqVars

Sanitize ==
    /\ phase = "build"
    /\ sanitized' = sanitize_input(text)
    /\ phase' = "done"
    /\ UNCHANGED <<text, nPieces, parsed, wf>>
    /\ UNCHANGED reqVars

NextSanitize == AppendSanitizePiece \/ Sanitize

SpecSanitize == InitSanitize /\ [][NextSanitize]_vars

(***************************************************************************)
(* parse_claude_response applied to assembled replies                      *)
(***************************************************************************)
MaxReplyPieces == 3

ReplyPieces ==
    { L_RISK_LEVEL, L_CONFIDENCE, L_REASONING, L_RED_FLAGS, L_RECOMMENDATIONS,
      <<"r", "i", "s", "k", "_", "l", "e", "v", "e", "l", ":">>,
      <<"R", "e", "d", "_", "F", "l", "a", "g", "s", ":">>,
      <<"R", "I", "S", "K", "_", "L", "E", "V", "E", "L">>,
      <<" ">>, <<"\n">>, <<",">>, <<"!">>,
      <<"H", "i", "g", "h">>, <<"N", "o", "n", "e">>,
      <<"o", "d", "d", " ", "h", "o", "u", "r">> }

InitParse == InitText /\ InitRequests

AppendReplyPiece ==
    /\ phase = "build"
    /\ nPieces < MaxReplyPieces
    /\ \E p \in ReplyPieces : text' = text \o p
    /\ nPieces' = nPieces + 1
    /\ UNCHANGED <<phase, sanitized, parsed, wf>>
    /\ UNCHANGED reqVars

Parse ==
    /\ phase = "build"
    /\ parsed' = parse_claude_response(text)
    /\ phase' = "done"
    /\ UNCHANGED <<text, nPieces, sanitized, wf>>
    /\ UNCHANGED reqVars

NextParse == AppendReplyPiece \/ Parse

SpecParse == InitParse /\ [][NextParse]_vars

(***************************************************************************)
(* parse_claude_response applied to replies in the requested format        *)
(***************************************************************************)
\* the five labels in the order of the format section of the prompt
CanonicalLabels ==
    <<L_RISK_LEVEL, L_CONFIDENCE, L_REASONING, L_RED_FLAGS, L_RECOMMENDATIONS>>

\* the values a line is given, per label
LineValues ==
    << { <<"h", "i", "g", "h">>, <<"H", "I", "G", "H">>, <<"M", "e", "d", "i", "u", "m">> },
       { <<"m", "e", "d", "i", "u", "m">>, <<"L", "o", "w">> },
       { <<"l", "a", "r", "g", "e", " ", "a", "m", "o", "u", "n", "t", ".">>,
         <<"o", "k", ",", " ", "f", "i", "n", "e", " ">> },
       { <<"u", "n", "u", "s", "u", "a", "l", " ", "l", "o", "c", "a", "t", "i", "o", "n", ",", " ", "o", "d", "d", " ", "h", "o", "u", "r">>,
         <<"n", "o", "n", "e">>,
         <<"N", "o", "n", "e">>,
         <<"a", ",", ",", "b">>,
         <<"o", "d", "d", " ", "h", "o", "u", "r">> },
       { <<"f", "l", "a", "g", " ", "f", "o", "r", " ", "r", "e", "v", "i", "e", "w">>,
         <<"n", "o", "n", "e">> } >>

InitRoundTrip == InitText /\ InitRequests

\* one more line "<LABEL> <value>" in canonical order
AppendLine ==
    /\ phase = "build"
    /\ Len(wf) < Len(CanonicalLabels)
    /\ \E v \in LineValues[Len(wf) + 1] :
        /\ text' = text \o (IF wf = <<>> THEN <<>> ELSE <<"\n">>)
                        \o CanonicalLabels[Len(wf) + 1] \o <<" ">> \o v
        /\ wf' = Append(wf, v)
    /\ nPieces' = nPieces + 1
    /\ UNCHANGED <<phase, sanitized, parsed>>
    /\ UNCHANGED reqVars

ParseReply ==
    /\ Len(wf) = Len(CanonicalLabels)
    /\ Parse

NextRoundTrip == AppendLine \/ ParseReply

SpecRoundTrip == InitRoundTrip /\ [][NextRoundTrip]_vars

(***************************************************************************)
(* What the specification says the parser extracts                         *)
(***************************************************************************)
AllLabels == {L_RISK_LEVEL, L_CONFIDENCE, L_REASONING, L_RED_FLAGS, L_RECOMMENDATIONS}

HasNoLabel(s) == \A l \in AllLabels : ~Contains(s, l)

\* a label starts at position j of s
LabelAt(s, j) == \E l \in AllLabels : LitAt(s, j, l)

\* the position after the first occurrence of label in s
AfterFirst(s, label) ==
    Len(label) + Leftmost({i \in 1..Len(s) : LitAt(s, i, label)})

\* the text strictly between the first occurrence of label and the next
\* occurrence of stop after it, or the end of the text
SpanBetween(s, label, stop) ==
    LET a == AfterFirst(s, label)
        e == Leftmost({k \in a..Len(s) : LitAt(s, k, stop)} \cup {Len(s) + 1})
    IN  SubSeq(s, a, e - 1)

\* the first occurrence of label has no value of its own: only whitespace
\* lies between it and the next label or the end of the text
NoOwnValue(s, label) ==
    LET j == SkipWS(s, AfterFirst(s, label))
    IN  j > Len(s) \/ LabelAt(s, j)

\* the first occurrence of label is followed by a word token of its own
OwnToken(s, label) ==
    LET j == SkipWS(s, AfterFirst(s, label))
    IN  j <= Len(s) /\ IsWord(s[j]) /\ ~LabelAt(s, j)

TokenAfterFirst(s, label) ==
    LET j == SkipWS(s, AfterFirst(s, label))
    IN  LowerStr(SubSeq(s, j, WordRunEnd(s, j) - 1))

\* the token rule of RISK_LEVEL: and CONFIDENCE:
TokenRule(s, label, value) ==
    /\ ~Contains(s, label) => value = S_unknown
    /\ Contains(s, label) /\ NoOwnValue(s, label) => value = S_unknown
    /\ Contains(s, label) /\ OwnToken(s, label) => value = TokenAfterFirst(s, label)

\* the list rule of RED_FLAGS:
FlagsOf(span) ==
    IF Strip(span) = <<>> \/ LowerStr(Strip(span)) = S_none
    THEN <<>>
    ELSE StripNonEmpty(Split(Strip(span)))

(***************************************************************************)
(* Claims about sanitize_input and parse_claude_response                   *)
(***************************************************************************)
\* C1: the string returned by sanitize_input contains no occurrence of any
\* recognized injection phrase, whatever the input text (any letter case,
\* nested or overlapping phrases included).
C1_NoPhraseInOutput ==
    phase = "done" =>
        \A k \in 1..Len(injection_patterns) :
            ~PatternOccurs(injection_patterns[k], sanitized)

\* C2: for every reply that contains the label REASONING:, reasoning is the
\* text strictly between that label and the next RED_FLAGS: label (or the end
\* of the text), trimmed; also when that span is empty or only whitespace.
C2_ReasoningIsSpan ==
    phase = "done" /\ Contains(text, L_REASONING) =>
        parsed.reasoning = Strip(SpanBetween(text, L_REASONING, L_RED_FLAGS))

\* C3: risk_level is the lower-cased token that follows the first RISK_LEVEL:
\* label, and "unknown" when the label is absent or has no value token of its
\* own before the next label or the end of the text; confidence follows the
\* same rule with the label CONFIDENCE:.
C3_TokenOrUnknown ==
    phase = "done" =>
        /\ TokenRule(text, L_RISK_LEVEL, parsed.risk_level)
        /\ TokenRule(text, L_CONFIDENCE, parsed.confidence)

\* C4: for every reply that contains none of the five labels in any letter
\* case, parse_claude_response returns risk_level "unknown", confidence
\* "unknown", reasoning "", red_flags [] and recommendations "".
C4_NoLabelAllDefault ==
    phase = "done" /\ HasNoLabel(text) =>
        parsed = [risk_level      |-> S_unknown,
                  confidence      |-> S_unknown,
                  reasoning       |-> <<>>,
                  red_flags       |-> <<>>,
                  recommendations |-> <<>>]

\* C4 witness: a parsed reply without any label that still carries the text
\* of a label without its colon and a value
C4_Witness ==
    /\ phase = "done"
    /\ HasNoLabel(text)
    /\ text = <<"R", "I", "S", "K", "_", "L", "E", "V", "E", "L", " ", "H", "i", "g", "h">>
    /\ parsed.risk_level = S_unknown

\* C6: for every reply that contains the label RED_FLAGS:, red_flags comes
\* from the text strictly between RED_FLAGS: and the next RECOMMENDATIONS:
\* label (or the end of the text): the empty list when that text, trimmed, is
\* empty or is "none" in any letter case, otherwise its comma-separated
\* segments, trimmed, without the empty ones, in order.
C6_RedFlagsFromSpan ==
    phase = "done" /\ Contains(text, L_RED_FLAGS) =>
        parsed.red_flags = FlagsOf(SpanBetween(text, L_RED_FLAGS, L_RECOMMENDATIONS))

\* C5 as stated: for every reply made of the five labelled lines in canonical
\* order, each with a non-empty value without label text, the parser returns
\* these values: risk_level and confidence lower-cased, reasoning and
\* recommendations trimmed, red_flags the ordered list of the trimmed
\* comma-separated items of its line.
C5_RoundTripItems ==
    phase = "done" /\ Len(wf) = Len(CanonicalLabels) =>
        parsed = [risk_level      |-> LowerStr(Strip(wf[1])),
                  confidence      |-> LowerStr(Strip(wf[2])),
                  reasoning       |-> Strip(wf[3]),
                  red_flags       |-> StripNonEmpty(Split(wf[4])),
                  recommendations |-> Strip(wf[5])]

\* C5 amended: as C5, for RISK_LEVEL and CONFIDENCE values that are single
\* words, with red_flags the empty list when the value of its line is "none"
\* in any letter case, and the ordered list of the trimmed non-empty
\* comma-separated items otherwise.
C5_RoundTrip ==
    phase = "done" /\ Len(wf) = Len(CanonicalLabels) =>
        parsed = [risk_level      |-> LowerStr(Strip(wf[1])),
                  confidence      |-> LowerStr(Strip(wf[2])),
                  reasoning       |-> Strip(wf[3]),
                  red_flags       |-> FlagsOf(wf[4]),
                  recommendations |-> Strip(wf[5])]

\* C5 witness: the reply of the specification's round-trip example, parsed
C5_Witness ==
    /\ phase = "done"
    /\ text = WellFormedReply
    /\ parsed = [risk_level      |-> <<"h", "i", "g", "h">>,
                 confidence      |-> <<"m", "e", "d", "i", "u", "m">>,
                 reasoning       |-> <<"l", "a", "r", "g", "e", " ", "a", "m", "o", "u", "n", "t", ".">>,
                 red_flags       |-> << <<"u", "n", "u", "s", "u", "a", "l", " ", "l", "o", "c", "a", "t", "i", "o", "n">>,
                                        <<"o", "d", "d", " ", "h", "o", "u", "r">> >>,
                 recommendations |-> <<"f", "l", "a", "g", " ", "f", "o", "r", " ", "r", "e", "v", "i", "e", "w">>]

(***************************************************************************)
(* Claims about the validation and analyze_transaction                     *)
(***************************************************************************)
\* request r was accepted by the validation
Accepted(r) == pc[r] # "idle" /\ status[r] # 422

FourDigits(v) == Len(v) = 4 /\ IsDigitStr(v)

\* C7: in every accepted TransactionRequest card_last_four is absent or a
\* string of exactly 4 numeric characters (the empty string is rejected), and
\* the card line of every prompt is '****' followed by four digits or by
\* 'XXXX'.
C7_CardLastFour ==
    \A r \in Requests :
        Accepted(r) =>
            /\ txn[r].card_last_four = None \/ FourDigits(txn[r].card_last_four)
            /\ prompt[r] # NoPrompt =>
                   \/ prompt[r].card = S_stars \o S_XXXX
                   \/ /\ SubSeq(prompt[r].card, 1, 4) = S_stars
                      /\ FourDigits(SubSeq(prompt[r].card, 5, Len(prompt[r].card)))

\* the call of request r failed: it raised, or returned a malformed envelope
CallFailed(r) ==
    message[r].kind = "raised" \/ (message[r].kind = "message" /\ message[r].content = <<>>)

\* C8: every invocation of analyze_transaction attempts exactly one call to
\* the model and never retries it; when the call fails the request ends in
\* HTTP 500 carrying the cause and no FraudAnalysisResponse is returned; a
\* result is returned only after a call that succeeded.
C8_OneCallFailureIs500 ==
    \A r \in Requests :
        /\ calls[r] <= 1
        /\ pc[r] = "done" /\ Accepted(r) => calls[r] = 1
        /\ pc[r] = "done" /\ CallFailed(r) =>
               /\ status[r] = HTTP_500
               /\ response[r] = NoResponse
               /\ detail[r] # <<>>
        /\ response[r] # NoResponse =>
               /\ status[r] = 200
               /\ calls[r] = 1
               /\ message[r].kind = "message" /\ message[r].content # <<>>

\* C8 witness: one request ended after its call raised, another after an
\* envelope without content
C8_Witness ==
    \E r, q \in Requests :
        /\ pc[r] = "done" /\ message[r].kind = "raised" /\ status[r] = HTTP_500
        /\ pc[q] = "done" /\ message[q].kind = "message" /\ message[q].content = <<>>
        /\ status[q] = HTTP_500

\* everything the model keeps for request q
RequestState(q) ==
    <<pc[q], txn[q], prompt[q], calls[q], message[q], response[q], status[q],
      detail[q], ran[q]>>

\* every result carries the transaction_id of its own request body and the
\* fields parsed from the reply to its own call
ResultsAreOwn ==
    \A r \in Requests :
        status[r] = 200 =>
            response[r] = [transaction_id  |-> txn[r].transaction_id,
                           risk_level      |-> ParseRiskLevel(message[r].content[1].text),
                           confidence      |-> ParseConfidence(message[r].content[1].text),
                           reasoning       |-> ParseReasoning(message[r].content[1].text),
                           red_flags       |-> ParseRedFlags(message[r].content[1].text),
                           recommendations |-> ParseRecommendations(message[r].content[1].text)]

\* C9: for any interleaving of concurrent invocations, each successful
\* result carries the transaction_id of its own input record (never one
\* from the model output) and the fields parsed from the reply to its own
\* prompt, and no step of a request reads or writes the state of another.
C9_Independent ==
    /\ []ResultsAreOwn
    /\ [][\E r \in Requests :
              \A q \in Requests \ {r} : RequestState(q)' = RequestState(q)]_vars

\* C9 witness: two requests with distinct records interleaved, both answered,
\* one of them from a reply that names another transaction
C9_Witness ==
    \E r, q \in Requests :
        /\ status[r] = 200 /\ status[q] = 200
        /\ txn[r].transaction_id = ID_A /\ response[r].transaction_id = ID_A
        /\ txn[q].transaction_id = ID_B /\ response[q].transaction_id = ID_B
        /\ message[q].content[1].text = UnstructuredReply
        /\ message[r].content[1].text = WellFormedReply

\* the body violates a field constraint of the data model
ViolatesDataModel(body) ==
    \/ body.amount <= 0
    \/ Len(body.merchant) \notin 1..200
    \/ Len(body.category) \notin 1..200
    \/ Len(body.location) \notin 1..200
    \/ body.transaction_id = <<>>
    \/ ~validate_timestamp(body.timestamp)
    \/ ~(body.card_last_four = None \/ FourDigits(body.card_last_four))

\* C10: every request whose record violates a field constraint of the data
\* model is rejected by the validation, and for a rejected request none of
\* sanitize_input, build_fraud_prompt, the model call and
\* parse_claude_response is executed.
C10_InvalidRejected ==
    \A r \in Requests :
        /\ pc[r] # "idle" /\ ViolatesDataModel(txn[r]) => status[r] = 422
        /\ status[r] = 422 => ran[r] = {} /\ calls[r] = 0

====
